---- MODULE Spec2Model ----
(***************************************************************************)
(* The staging / approval data store of vocab-harvester (src/database.py). *)
(*                                                                         *)
(* The SQLite file is modelled table by table: vocab, tags, word_tags and  *)
(* temp_vocab, plus the AUTOINCREMENT counter of tags (sqlite_sequence).   *)
(* Every function of database.py opens its own connection and runs one     *)
(* transaction; Spec takes each call as one step (calls of one process),   *)
(* SpecTxn takes approve_word statement by statement on two connections,   *)
(* with the uncommitted writes of a connection kept apart from the         *)
(* committed tables and with storage errors raised between statements.     *)
(***************************************************************************)
EXTENDS Integers, Sequences, FiniteSets, TLC

VARIABLES
    vocab,       \* table vocab: set of rows, PRIMARY KEY word
    tags,        \* table tags: set of rows, PRIMARY KEY tag_id, UNIQUE tag_name
    tag_seq,     \* sqlite_sequence of tags: the largest tag_id ever assigned
    word_tags,   \* table word_tags: set of rows, PRIMARY KEY (word, tag_id)
    temp_vocab,  \* table temp_vocab: rows in rowid order, PRIMARY KEY (word, session_id)
    clock,       \* the time: CURRENT_TIMESTAMP and datetime.now(); it passes in SpecMgr only
    last,        \* the call that returned last: its name, return value and printed message
    txn,         \* SpecTxn: per connection, the approve_word call in progress (<<>> in Spec)
    lock,        \* SpecTxn: the connection holding SQLite's write lock, 0 when free
    sessions,    \* SpecSess: the ProcessingSession objects of the process, by session_id
    files,       \* SpecSess: the sessions directory, <session_id>.json by session_id
    run,         \* SpecSess: the start_session call in progress and where it stands
    calls,       \* SpecTags: per process, the add_word or create_tag call in progress
    review       \* SpecReview: review_pending_words, its pending list and word_index

vars == <<vocab, tags, tag_seq, word_tags, temp_vocab, clock, last, txn, lock,
          sessions, files, run, calls, review>>

(***************************************************************************)
(* Values                                                                  *)
(***************************************************************************)
None == "None"          \* Python None, SQL NULL
PyTrue == "True"
PyFalse == "False"

\* SessionStatus
CREATED == "created"
PROCESSING == "processing"
COMPLETED == "completed"
FAILED == "failed"
PENDING_REVIEW == "pending_review"

\* Bounds of the model.
MaxRows == 2            \* rows of temp_vocab
MaxStarts == 2          \* start_session calls in a run of SpecSess
MaxClock == 2           \* the last instant of a run of SpecMgr
MaxTagId == 2           \* the tags created in a run of SpecTags
MaxStaged == 3          \* rows of temp_vocab in SpecOrder

\* approve_word(lemma, session_id, difficulty=3, tags=None); vocab.difficulty DEFAULT 3
DefaultDifficulty == 3

\* session_id arguments; "" is the empty session id.
Sessions == {"", "s1", "s2"}

\* lemma arguments; "" is the empty lemma.
Lemmas == {"", "essen", "haus"}

\* (word, lemma, pos, translation, is_regular) arguments of add_temp_word: two surface
\* forms of the lemma "essen" (the verb form untranslated), and one of the lemma "haus".
Candidates ==
    { [word |-> "essen", lemma |-> "essen", pos |-> "NOUN", translation |-> "meal", is_regular |-> None],
      [word |-> "isst",  lemma |-> "essen", pos |-> "VERB", translation |-> None,   is_regular |-> PyFalse],
      [word |-> "haus",  lemma |-> "haus",  pos |-> "NOUN", translation |-> "home", is_regular |-> None] }

Words == {c.word : c \in Candidates}

\* The (candidate, session_id) pairs staged: all three candidates in "s1", the noun
\* "essen" and "haus" in "s2", the noun "essen" under the empty session id.
StageInputs ==
    {<<c, s>> \in Candidates \X Sessions :
        \/ s = "s1"
        \/ s = "s2" /\ c.word # "isst"
        \/ s = ""   /\ c.word = "essen"}

\* (word, pos, is_regular, translation, difficulty) arguments of add_word.
WordInputs ==
    { [word |-> "essen", pos |-> "VERB", is_regular |-> PyFalse, translation |-> "to eat",
       difficulty |-> DefaultDifficulty] }

\* (difficulty, tags) arguments of approve_word; <<>> stands for tags=None and for
\* tags=[] (both skip the loop).
ApproveInputs ==
    { [difficulty |-> DefaultDifficulty, tags |-> <<>>],
      [difficulty |-> 4,                 tags |-> <<"noun", "noun">>],
      [difficulty |-> DefaultDifficulty, tags |-> <<"food", "noun">>] }

Conns == {1, 2}

(***************************************************************************)
(* The database as one value, and the SQL statements as functions on it.   *)
(***************************************************************************)
DB == [vocab |-> vocab, tags |-> tags, tag_seq |-> tag_seq,
       word_tags |-> word_tags, temp_vocab |-> temp_vocab]

SetDB(d) ==
    /\ vocab' = d.vocab
    /\ tags' = d.tags
    /\ tag_seq' = d.tag_seq
    /\ word_tags' = d.word_tags
    /\ temp_vocab' = d.temp_vocab

EmptyDB == [vocab |-> {}, tags |-> {}, tag_seq |-> 0, word_tags |-> {}, temp_vocab |-> <<>>]

Range(s) == {s[i] : i \in 1..Len(s)}

\* The sequences without repetition of the elements of set S.
Perms(S) ==
    {L \in [1..Cardinality(S) -> S] : \A i, j \in 1..Cardinality(S) : L[i] = L[j] => i = j}

\* SELECT word FROM vocab WHERE word = ?
WordInVocab(d, w) == \E e \in d.vocab : e.word = w

word_exists(w) == WordInVocab(DB, w)

\* The SELECT without its session_id condition.
SelectTemp_AnySession(d, lemma, session_id) ==
    {r \in Range(d.temp_vocab) : r.lemma = lemma}

\* SELECT ... FROM temp_vocab WHERE lemma = ? AND session_id = ?: the matching rows.
SelectTemp(d, lemma, session_id) ==
    {r \in Range(d.temp_vocab) : r.lemma = lemma /\ r.session_id = session_id}

\* INSERT INTO vocab (word, pos, is_regular, translation, difficulty) VALUES (...)
InsertVocab(d, word, pos, is_regular, translation, difficulty) ==
    [d EXCEPT !.vocab = @ \cup {[word |-> word, pos |-> pos, is_regular |-> is_regular,
                                 translation |-> translation, difficulty |-> difficulty]}]

\* The tag inserted without looking it up first.
GetOrCreateTag_AlwaysInsert(d, tag_name) ==
    [d EXCEPT !.tags = @ \cup {[tag_id |-> d.tag_seq + 1, tag_name |-> tag_name,
                                description |-> None]},
              !.tag_seq = @ + 1]

\* SELECT tag_id FROM tags WHERE tag_name = ?; INSERT INTO tags (tag_name, description)
\* VALUES (?, NULL) when there is none. AUTOINCREMENT: the new id is tag_seq + 1.
GetOrCreateTag(d, tag_name) ==
    IF \E t \in d.tags : t.tag_name = tag_name
    THEN d
    ELSE [d EXCEPT !.tags = @ \cup {[tag_id |-> d.tag_seq + 1, tag_name |-> tag_name,
                                     description |-> None]},
                   !.tag_seq = @ + 1]

TagId(d, tag_name) == (CHOOSE t \in d.tags : t.tag_name = tag_name).tag_id

\* INSERT OR IGNORE INTO word_tags (word, tag_id) VALUES (?, ?)
LinkTag(d, word, tag_name) ==
    [d EXCEPT !.word_tags = @ \cup {[word |-> word, tag_id |-> TagId(d, tag_name)]}]

\* for tag_name in tags: get or create the tag, add the association.
RECURSIVE AddTags(_, _, _)
AddTags(d, word, tagList) ==
    IF tagList = <<>> THEN d
    ELSE AddTags(LinkTag(GetOrCreateTag(d, Head(tagList)), word, Head(tagList)),
                 word, Tail(tagList))

\* The DELETE without its session_id condition.
DeleteTemp_AnySession(d, lemma, session_id) ==
    [d EXCEPT !.temp_vocab = SelectSeq(@, LAMBDA r : r.lemma # lemma)]

\* DELETE FROM temp_vocab WHERE lemma = ? AND session_id = ?
DeleteTemp(d, lemma, session_id) ==
    [d EXCEPT !.temp_vocab =
        SelectSeq(@, LAMBDA r : ~(r.lemma = lemma /\ r.session_id = session_id))]

\* SELECT t.tag_name, t.description FROM tags t JOIN word_tags wt ... WHERE wt.word = ?
get_word_tags(word) ==
    {<<t.tag_name, t.description>> :
        t \in {t \in tags : \E wt \in word_tags : wt.word = word /\ wt.tag_id = t.tag_id}}

\* The words of the model in the order of ORDER BY word ASC.
SortedWords == <<"", "essen", "haus", "isst">>

WordRank(word) == CHOOSE i \in 1..Len(SortedWords) : SortedWords[i] = word

\* The row of an entry: SELECT word, pos, is_regular, translation, difficulty
VocabRow(e) == <<e.word, e.pos, e.is_regular, e.translation, e.difficulty>>

\* get_all_words with filters = {'difficulty': DefaultDifficulty}.
get_all_words_Filtered(d) ==
    {L \in Perms({VocabRow(e) : e \in {x \in d.vocab : x.difficulty = DefaultDifficulty}}) :
        \A i, j \in 1..Len(L) : i < j => WordRank(L[i][1]) <= WordRank(L[j][1])}

\* get_all_words(): every row of vocab, ORDER BY word ASC; the results it can give.
get_all_words(d) ==
    {L \in Perms({VocabRow(e) : e \in d.vocab}) :
        \A i, j \in 1..Len(L) : i < j => WordRank(L[i][1]) <= WordRank(L[j][1])}

\* The sorter of ORDER BY created_at taking a row: it goes behind the rows that are
\* not younger, the rows of one second staying as the scan of the table found them.
RECURSIVE SorterInsert(_, _)
SorterInsert(sorted, r) ==
    IF sorted = <<>> THEN <<r>>
    ELSE IF sorted[Len(sorted)].created_at <= r.created_at THEN Append(sorted, r)
    ELSE Append(SorterInsert(SubSeq(sorted, 1, Len(sorted) - 1), r), sorted[Len(sorted)])

\* The rows of the scan in reverse, the youngest first.
RECURSIVE OrderByCreatedAt_Descending(_)
OrderByCreatedAt_Descending(rows) ==
    IF rows = <<>> THEN <<>>
    ELSE Append(OrderByCreatedAt_Descending(Tail(rows)), Head(rows))

\* ORDER BY created_at, of rows in rowid order.
RECURSIVE OrderByCreatedAt(_)
OrderByCreatedAt(rows) ==
    IF rows = <<>> THEN <<>>
    ELSE SorterInsert(OrderByCreatedAt(SubSeq(rows, 1, Len(rows) - 1)), rows[Len(rows)])

\* MIN(created_at) of a group of rows.
MinCreatedAt(group) == CHOOSE t \in {r.created_at : r \in group} : \A r \in group : t <= r.created_at

\* get_all_sessions with COUNT(DISTINCT lemma) for COUNT(*).
get_all_sessions_DistinctLemmas(rows) ==
    LET groups == {[session_id |-> s,
                    word_count |-> Cardinality({r.lemma : r \in {x \in Range(rows) : x.session_id = s}}),
                    created_at |-> MinCreatedAt({x \in Range(rows) : x.session_id = s})] :
                   s \in {r.session_id : r \in Range(rows)}}
    IN {L \in Perms(groups) : \A i, j \in 1..Len(L) : i < j => L[i].created_at >= L[j].created_at}

\* get_all_sessions: SELECT session_id, COUNT(*), MIN(created_at) FROM temp_vocab
\* GROUP BY session_id ORDER BY created_at DESC; the results it can give, groups of
\* one second in any order.
get_all_sessions(rows) ==
    LET groups == {[session_id |-> s,
                    word_count |-> Cardinality({x \in Range(rows) : x.session_id = s}),
                    created_at |-> MinCreatedAt({x \in Range(rows) : x.session_id = s})] :
                   s \in {r.session_id : r \in Range(rows)}}
    IN {L \in Perms(groups) : \A i, j \in 1..Len(L) : i < j => L[i].created_at >= L[j].created_at}

\* The SELECT of get_temp_words on a temp_vocab table: "if session_id:" takes ""
\* like None.
SelectTempWords(rows, session_id) ==
    IF session_id # None /\ session_id # ""
    THEN OrderByCreatedAt(SelectSeq(rows, LAMBDA r : r.session_id = session_id))
    ELSE OrderByCreatedAt(rows)

\* get_temp_words(session_id=None)
get_temp_words(session_id) == SelectTempWords(temp_vocab, session_id)

temp_word_exists(word, session_id) ==
    \E r \in Range(temp_vocab) : r.word = word /\ r.session_id = session_id

\* No start_session call in progress; starts counts the calls made so far.
RunIdle(starts) == [pc |-> "idle", session_id |-> "", original_text |-> <<>>, starts |-> starts]

\* The processes of SpecTags.
Procs == {1, 2}

\* The arguments of a call that is not add_word.
NoWord == [word |-> "", pos |-> "", is_regular |-> None, translation |-> None, difficulty |-> 0]

\* No call in progress.
\* review_pending_words is not running.
NoReview == [pc |-> "idle", session_id |-> "", pending |-> <<>>, word_index |-> 0]

NoCall == [pc |-> "idle", w |-> NoWord, tag_name |-> ""]

(***************************************************************************)
(* Init: the tables as init_database() creates them.                       *)
(***************************************************************************)
Init ==
    /\ vocab = {}
    /\ tags = {}
    /\ tag_seq = 0
    /\ word_tags = {}
    /\ temp_vocab = <<>>
    /\ clock = 0
    /\ last = [op |-> "init_database", ret |-> None, n |-> 0, msg |-> ""]
    /\ txn = <<>>
    /\ lock = 0
    /\ calls = [p \in Procs |-> NoCall]
    /\ review = NoReview
    /\ sessions = <<>>
    /\ files = <<>>
    /\ run = RunIdle(0)

\* ret is the value returned when it is True, False or None; a returned count is n.
Returns(op, ret, msg) == last' = [op |-> op, ret |-> ret, n |-> 0, msg |-> msg]

ReturnsCount(op, n) == last' = [op |-> op, ret |-> "int", n |-> n, msg |-> ""]

(***************************************************************************)
(* The calls of database.py, one step each.                                *)
(***************************************************************************)
\* add_temp_word: INSERT OR REPLACE deletes the row of the same (word, session_id)
\* and appends the new one, created_at = CURRENT_TIMESTAMP.
InsertOrReplaceTemp(rows, c, session_id, now) ==
    Append(SelectSeq(rows, LAMBDA r : ~(r.word = c.word /\ r.session_id = session_id)),
           [word |-> c.word, lemma |-> c.lemma, pos |-> c.pos, translation |-> c.translation,
            is_regular |-> c.is_regular, session_id |-> session_id, created_at |-> now])

AddTempWord(c, session_id) ==
    /\ Len(InsertOrReplaceTemp(temp_vocab, c, session_id, clock)) <= MaxRows
    /\ temp_vocab' = InsertOrReplaceTemp(temp_vocab, c, session_id, clock)
    /\ Returns("add_temp_word", PyTrue, "")
    /\ UNCHANGED <<review, calls, vocab, tags, tag_seq, word_tags, clock, sessions, files, run, txn, lock>>

\* remove_temp_word without its session_id condition.
RemoveTempWord_AnySession(word, session_id) ==
    /\ temp_vocab' = SelectSeq(temp_vocab, LAMBDA r : r.word # word)
    /\ Returns("remove_temp_word",
               IF temp_word_exists(word, session_id) THEN PyTrue ELSE PyFalse, "")
    /\ UNCHANGED <<review, calls, vocab, tags, tag_seq, word_tags, clock, sessions, files, run, txn, lock>>

\* remove_temp_word: DELETE FROM temp_vocab WHERE word = ? AND session_id = ?
RemoveTempWord(word, session_id) ==
    /\ temp_vocab' = SelectSeq(temp_vocab, LAMBDA r : ~(r.word = word /\ r.session_id = session_id))
    /\ Returns("remove_temp_word",
               IF temp_word_exists(word, session_id) THEN PyTrue ELSE PyFalse, "")
    /\ UNCHANGED <<review, calls, vocab, tags, tag_seq, word_tags, clock, sessions, files, run, txn, lock>>

\* clear_temp_session testing `if session_id:` as get_temp_words does, and deleting
\* every row otherwise.
ClearTempSession_FalsyClearsAll(session_id) ==
    /\ temp_vocab' = IF session_id # ""
                     THEN SelectSeq(temp_vocab, LAMBDA r : r.session_id # session_id)
                     ELSE <<>>
    /\ ReturnsCount("clear_temp_session", Len(temp_vocab) - Len(temp_vocab'))
    /\ UNCHANGED <<review, calls, vocab, tags, tag_seq, word_tags, clock, sessions, files, run, txn, lock>>

\* clear_temp_session: DELETE FROM temp_vocab WHERE session_id = ?; returns the rowcount.
ClearTempSession(session_id) ==
    /\ temp_vocab' = SelectSeq(temp_vocab, LAMBDA r : r.session_id # session_id)
    /\ ReturnsCount("clear_temp_session",
                    Len(SelectSeq(temp_vocab, LAMBDA r : r.session_id = session_id)))
    /\ UNCHANGED <<review, calls, vocab, tags, tag_seq, word_tags, clock, sessions, files, run, txn, lock>>

\* add_word: skips a word that exists, inserts it otherwise; returns None.
AddWord(w) ==
    /\ IF word_exists(w.word)
       THEN /\ Returns("add_word", None, "exists")
            /\ UNCHANGED <<review, calls, vocab, tags, tag_seq, word_tags, temp_vocab>>
       ELSE /\ SetDB(InsertVocab(DB, w.word, w.pos, w.is_regular, w.translation, w.difficulty))
            /\ Returns("add_word", None, "added")
    /\ UNCHANGED <<review, calls, clock, sessions, files, run, txn, lock>>

\* approve_word writing INSERT OR REPLACE INTO vocab, without the check for the word.
ApproveResult_Replace(d, row, lemma, session_id, difficulty, tagList) ==
    DeleteTemp(
      AddTags(InsertVocab([d EXCEPT !.vocab = {e \in @ : e.word # row.lemma}],
                          row.lemma, row.pos, row.is_regular, row.translation, difficulty),
              row.lemma, tagList),
      lemma, session_id)

\* approve_word returning at once where the word exists, the candidate left staged.
ApproveResult_NoCleanup(d, row, lemma, session_id, difficulty, tagList) ==
    IF WordInVocab(d, row.lemma)
    THEN d
    ELSE DeleteTemp(
           AddTags(InsertVocab(d, row.lemma, row.pos, row.is_regular, row.translation, difficulty),
                   row.lemma, tagList),
           lemma, session_id)

\* What approve_word leaves of database d once the row it fetched is known.
ApproveResult(d, row, lemma, session_id, difficulty, tagList) ==
    IF WordInVocab(d, row.lemma)
    THEN DeleteTemp(d, lemma, session_id)
    ELSE DeleteTemp(
           AddTags(InsertVocab(d, row.lemma, row.pos, row.is_regular, row.translation, difficulty),
                   row.lemma, tagList),
           lemma, session_id)

\* approve_word marking the session completed once it approved its last candidate.
ApproveWord_Demotes(lemma, session_id, difficulty, tagList) ==
    /\ IF SelectTemp(DB, lemma, session_id) = {}
       THEN /\ Returns("approve_word", PyFalse, "not found")
            /\ UNCHANGED <<review, calls, vocab, tags, tag_seq, word_tags, temp_vocab, sessions>>
       ELSE \E row \in SelectTemp(DB, lemma, session_id) :
              /\ SetDB(ApproveResult(DB, row, lemma, session_id, difficulty, tagList))
              /\ IF WordInVocab(DB, row.lemma)
                 THEN Returns("approve_word", PyFalse, "already exists")
                 ELSE Returns("approve_word", PyTrue, "approved")
              /\ sessions' =
                    IF /\ session_id \in DOMAIN sessions
                       /\ \A r \in Range(temp_vocab) :
                             r.session_id = session_id => r.lemma = lemma
                    THEN [sessions EXCEPT ![session_id].status = COMPLETED]
                    ELSE sessions
    /\ UNCHANGED <<review, calls, clock, files, run, txn, lock>>

\* approve_word, what it does to the tables and what it returns. LIMIT 1 without
\* ORDER BY: any matching row may be the one fetched.
approve_word(lemma, session_id, difficulty, tagList) ==
    IF SelectTemp(DB, lemma, session_id) = {}
    THEN /\ Returns("approve_word", PyFalse, "not found")
         /\ UNCHANGED <<vocab, tags, tag_seq, word_tags, temp_vocab>>
    ELSE \E row \in SelectTemp(DB, lemma, session_id) :
           /\ SetDB(ApproveResult(DB, row, lemma, session_id, difficulty, tagList))
           /\ IF WordInVocab(DB, row.lemma)
              THEN Returns("approve_word", PyFalse, "already exists")
              ELSE Returns("approve_word", PyTrue, "approved")

\* approve_word called on its own.
ApproveWord(lemma, session_id, difficulty, tagList) ==
    /\ approve_word(lemma, session_id, difficulty, tagList)
    /\ UNCHANGED <<review, calls, clock, sessions, files, run, txn, lock>>

\* reject_word: DELETE FROM temp_vocab WHERE lemma = ? AND session_id = ?
reject_word(lemma, session_id) ==
    /\ SetDB(DeleteTemp(DB, lemma, session_id))
    /\ IF SelectTemp(DB, lemma, session_id) # {}
       THEN Returns("reject_word", PyTrue, "rejected")
       ELSE Returns("reject_word", PyFalse, "not found")

\* reject_word called on its own.
RejectWord(lemma, session_id) ==
    /\ reject_word(lemma, session_id)
    /\ UNCHANGED <<review, calls, clock, sessions, files, run, txn, lock>>

Next ==
    \/ \E in \in StageInputs : AddTempWord(in[1], in[2])
    \/ \E w \in Words, s \in Sessions : RemoveTempWord(w, s)
    \/ \E s \in Sessions : ClearTempSession(s)
    \/ \E w \in WordInputs : AddWord(w)
    \/ \E l \in Lemmas, s \in Sessions, a \in ApproveInputs :
          ApproveWord(l, s, a.difficulty, a.tags)
    \/ \E l \in Lemmas, s \in Sessions : RejectWord(l, s)

Spec == Init /\ [][Next]_vars

(***************************************************************************)
(* approve_word statement by statement (SpecTxn). Each connection makes    *)
(* one call. The SELECTs read the committed tables. The first INSERT or    *)
(* DELETE opens the transaction and takes the write lock; from then on the *)
(* connection writes to its own copy (work), which conn.commit() makes the *)
(* committed tables and which the rollback of "with conn:" throws away.    *)
(***************************************************************************)
\* The connection opened with isolation_level=None: every statement commits as it runs.
Autocommit_EveryStatement == TRUE

\* sqlite3.connect(DB_FILE) keeps the default isolation_level: a statement is not
\* committed when it has run, only by conn.commit().
Autocommit == FALSE

\* The committed tables after a connection ran a statement that left it with `work`.
AfterStatement(work) == IF Autocommit THEN SetDB(work)
                        ELSE UNCHANGED <<review, calls, vocab, tags, tag_seq, word_tags, temp_vocab>>

NoRow == [word |-> "", lemma |-> "", pos |-> None, translation |-> None,
          is_regular |-> None, session_id |-> "", created_at |-> 0]

\* A connection on which approve_word was not called yet. Of a call: its arguments,
\* the row fetched, the index of the tag in work, the committed tables at its first
\* write (snap), the tables as the connection has written them (work) and, once the
\* call is done, the value it returned (ret).
Idle == [pc |-> "idle", lemma |-> "", session_id |-> "", difficulty |-> 0, tags |-> <<>>,
         row |-> NoRow, i |-> 0, snap |-> EmptyDB, work |-> EmptyDB, ret |-> None]

\* The calls made in SpecTxn.
TxnLemmas == {"essen"}
TxnSessions == {"s1", "s2"}

\* The tables when the two calls start: the noun "essen" is staged in "s1" beside one
\* more row, and the vocabulary is empty or holds "essen".
InitTxn ==
    /\ \E in \in StageInputs :
          temp_vocab = InsertOrReplaceTemp(
                          InsertOrReplaceTemp(<<>>, CHOOSE c \in Candidates : c.word = "essen", "s1", 0),
                          in[1], in[2], 0)
    /\ \/ vocab = {}
       \/ \E w \in WordInputs :
             vocab = InsertVocab(EmptyDB, w.word, w.pos, w.is_regular, w.translation, w.difficulty).vocab
    /\ tags = {}
    /\ tag_seq = 0
    /\ word_tags = {}
    /\ clock = 0
    /\ last = [op |-> "init_database", ret |-> None, n |-> 0, msg |-> ""]
    /\ txn = [c \in Conns |-> Idle]
    /\ lock = 0
    /\ calls = [p \in Procs |-> NoCall]
    /\ review = NoReview
    /\ sessions = <<>>
    /\ files = <<>>
    /\ run = RunIdle(0)

\* The connection's call ends: approve_word returns.
TxnReturns(c, t, ret, msg) ==
    /\ txn' = [txn EXCEPT ![c] = [t EXCEPT !.pc = "done", !.ret = ret]]
    /\ Returns("approve_word", ret, msg)

\* SELECT ... FROM temp_vocab WHERE lemma = ? AND session_id = ? LIMIT 1; fetchone()
TxnSelect(c, lemma, session_id, a) ==
    /\ txn[c].pc = "idle"
    /\ LET t == [txn[c] EXCEPT !.lemma = lemma, !.session_id = session_id,
                               !.difficulty = a.difficulty, !.tags = a.tags]
       IN  IF SelectTemp(DB, lemma, session_id) = {}
           THEN TxnReturns(c, t, PyFalse, "not found")
           ELSE /\ \E row \in SelectTemp(DB, lemma, session_id) :
                      txn' = [txn EXCEPT ![c] = [t EXCEPT !.pc = "check", !.row = row]]
                /\ UNCHANGED last
    /\ UNCHANGED <<review, calls, vocab, tags, tag_seq, word_tags, temp_vocab, clock, sessions, files, run, lock>>

\* SELECT word FROM vocab WHERE word = ?; fetchone()
TxnCheckVocab(c) ==
    /\ txn[c].pc = "check"
    /\ txn' = [txn EXCEPT ![c].pc = IF WordInVocab(DB, txn[c].row.lemma) THEN "cleanup" ELSE "insert"]
    /\ UNCHANGED <<review, calls, vocab, tags, tag_seq, word_tags, temp_vocab, clock, sessions, files, run, last, lock>>

\* The word exists: DELETE FROM temp_vocab WHERE lemma = ? AND session_id = ?
TxnCleanup(c) ==
    /\ txn[c].pc = "cleanup"
    /\ lock = 0
    /\ lock' = c
    /\ txn' = [txn EXCEPT ![c].pc = "commit_exists", ![c].snap = DB,
                          ![c].work = DeleteTemp(DB, txn[c].lemma, txn[c].session_id)]
    /\ AfterStatement(DeleteTemp(DB, txn[c].lemma, txn[c].session_id))
    /\ UNCHANGED <<review, calls, clock, sessions, files, run, last>>

\* INSERT INTO vocab ...: sqlite3.IntegrityError when the word was committed meanwhile.
TxnInsert(c) ==
    /\ txn[c].pc = "insert"
    /\ lock = 0
    /\ LET t == txn[c]
           w == InsertVocab(DB, t.row.lemma, t.row.pos, t.row.is_regular,
                            t.row.translation, t.difficulty)
       IN  IF WordInVocab(DB, t.row.lemma)
           THEN /\ TxnReturns(c, [t EXCEPT !.snap = DB, !.work = DB], PyFalse, "error")
                /\ UNCHANGED <<review, calls, vocab, tags, tag_seq, word_tags, temp_vocab, lock>>
           ELSE /\ lock' = c
                /\ txn' = [txn EXCEPT ![c] = [t EXCEPT !.pc = "tags", !.i = 1,
                                                       !.snap = DB, !.work = w]]
                /\ AfterStatement(w)
                /\ UNCHANGED last
    /\ UNCHANGED <<review, calls, clock, sessions, files, run>>

\* SELECT tag_id FROM tags WHERE tag_name = ?; INSERT INTO tags ... when there is none.
TxnTagCreate(c) ==
    /\ txn[c].pc = "tags"
    /\ txn[c].i <= Len(txn[c].tags)
    /\ txn' = [txn EXCEPT ![c].pc = "link",
                          ![c].work = GetOrCreateTag(@, txn[c].tags[txn[c].i])]
    /\ AfterStatement(GetOrCreateTag(txn[c].work, txn[c].tags[txn[c].i]))
    /\ UNCHANGED <<review, calls, clock, sessions, files, run, last, lock>>

\* INSERT OR IGNORE INTO word_tags (word, tag_id) VALUES (?, ?)
TxnTagLink(c) ==
    /\ txn[c].pc = "link"
    /\ txn' = [txn EXCEPT ![c].pc = "tags", ![c].i = @ + 1,
                          ![c].work = LinkTag(@, txn[c].row.lemma, txn[c].tags[txn[c].i])]
    /\ AfterStatement(LinkTag(txn[c].work, txn[c].row.lemma, txn[c].tags[txn[c].i]))
    /\ UNCHANGED <<review, calls, clock, sessions, files, run, last, lock>>

\* After the loop: DELETE FROM temp_vocab WHERE lemma = ? AND session_id = ?
TxnDelete(c) ==
    /\ txn[c].pc = "tags"
    /\ txn[c].i > Len(txn[c].tags)
    /\ txn' = [txn EXCEPT ![c].pc = "commit",
                          ![c].work = DeleteTemp(@, txn[c].lemma, txn[c].session_id)]
    /\ AfterStatement(DeleteTemp(txn[c].work, txn[c].lemma, txn[c].session_id))
    /\ UNCHANGED <<review, calls, clock, sessions, files, run, last, lock>>

\* conn.commit(); return True (return False where the word existed).
TxnCommit(c) ==
    /\ txn[c].pc \in {"commit", "commit_exists"}
    /\ SetDB(txn[c].work)
    /\ lock' = 0
    /\ IF txn[c].pc = "commit"
       THEN TxnReturns(c, txn[c], PyTrue, "approved")
       ELSE TxnReturns(c, txn[c], PyFalse, "already exists")
    /\ UNCHANGED <<review, calls, clock, sessions, files, run>>

\* A statement or the commit raises sqlite3.Error after the transaction was opened:
\* "with conn:" rolls back, the except clause returns False.
TxnError(c) ==
    /\ txn[c].pc \in {"tags", "link", "commit", "commit_exists"}
    /\ lock' = 0
    /\ TxnReturns(c, txn[c], PyFalse, "error")
    /\ UNCHANGED <<review, calls, vocab, tags, tag_seq, word_tags, temp_vocab, clock, sessions, files, run>>

\* The first write finds the database locked by the other connection until the
\* timeout: sqlite3.OperationalError, nothing was written, the call returns False.
TxnBusy(c) ==
    /\ txn[c].pc \in {"insert", "cleanup"}
    /\ lock \notin {0, c}
    /\ TxnReturns(c, [txn[c] EXCEPT !.snap = DB, !.work = DB], PyFalse, "error")
    /\ UNCHANGED <<review, calls, vocab, tags, tag_seq, word_tags, temp_vocab, clock, sessions, files, run, lock>>

NextTxn ==
    \E c \in Conns :
        \/ \E l \in TxnLemmas, s \in TxnSessions, a \in ApproveInputs : TxnSelect(c, l, s, a)
        \/ TxnCheckVocab(c)
        \/ TxnCleanup(c)
        \/ TxnInsert(c)
        \/ TxnTagCreate(c)
        \/ TxnTagLink(c)
        \/ TxnDelete(c)
        \/ TxnCommit(c)
        \/ TxnError(c)
        \/ TxnBusy(c)

SpecTxn == InitTxn /\ [][NextTxn]_vars

(***************************************************************************)
(* SpecSess: session_manager.py. A ProcessingSession is a record of its    *)
(* fields; start_session is a call in steps (the pipeline it calls is a    *)
(* collaborator that stages rows and returns a record or None, or raises); *)
(* every other call is one step, and none starts while start_session runs. *)
(* Texts are sequences of characters.                                      *)
(***************************************************************************)
\* The session ids given to ProcessingSession(session_id).
SessionIds == {"", "s1"}

\* The texts given to start_session.
Texts == { <<>>, <<" ", "\t">>, <<" ", "e", "s", "s", "e", "n", " ", " ">> }

\* What the pipeline stages under the session it runs for.
PipelineCandidates == {c \in Candidates : c.word = "essen"}

\* What process_text_input returns where it returns a record.
PipelineResults ==
    { [words_processed |-> 2, words_added |-> 1, words_translated |-> 1],
      [words_processed |-> 1, words_added |-> 0, words_translated |-> 0] }

\* The rows staged from outside the pipeline in SpecSess, and the lemmas approved.
SessStageInputs == {in \in StageInputs : in[1].word = "haus" /\ in[2] = "s1"}

SessLemmas == {"essen", "haus"}

\* A datetime attribute: None, or the time it was set at.
NoTime == [set |-> FALSE, at |-> 0]
At(t) == [set |-> TRUE, at |-> t]

\* datetime.isoformat, of the seconds and the fraction: two digits, and ".5" where
\* the microseconds are not zero (instants count half seconds).
IsoString(t) ==
    LET d == <<"0", "1", "2", "3", "4", "5", "6", "7", "8", "9">>
        sec == t \div 2
    IN <<d[(sec \div 10) + 1], d[(sec % 10) + 1]>> \o (IF t % 2 = 0 THEN <<>> ELSE <<".", "5">>)

\* x.isoformat() if x else None, as the JSON file holds it.
isoformat(x) == [null |-> ~x.set, iso |-> IsoString(x.at)]

IsSpace(ch) == ch \in {" ", "\t", "\n"}

RECURSIVE LStrip(_)
LStrip(t) == IF t # <<>> /\ IsSpace(Head(t)) THEN LStrip(Tail(t)) ELSE t

RECURSIVE RStrip(_)
RStrip(t) == IF t # <<>> /\ IsSpace(t[Len(t)]) THEN RStrip(SubSeq(t, 1, Len(t) - 1)) ELSE t

\* str.strip()
Strip(t) == RStrip(LStrip(t))

\* re.sub(r'\s+', ' ', t)
RECURSIVE CollapseSpaces(_)
CollapseSpaces(t) ==
    IF t = <<>> THEN <<>>
    ELSE IF IsSpace(Head(t)) THEN <<" ">> \o CollapseSpaces(LStrip(t))
    ELSE <<Head(t)>> \o CollapseSpaces(Tail(t))

clean_text_input(raw_text) ==
    IF raw_text = <<>> \/ Strip(raw_text) = <<>> THEN <<>>
    ELSE CollapseSpaces(Strip(raw_text))

\* ProcessingSession.__init__
NewSession(now) ==
    [status |-> CREATED, created_at |-> At(now), completed_at |-> NoTime,
     error_message |-> None,
     total_words_processed |-> 0, words_added |-> 0, words_translated |-> 0,
     words_failed |-> 0, cleaned_text |-> <<>>]

\* The entry of key k set to v in a dictionary (a directory).
Put(f, k, v) == [x \in DOMAIN f \cup {k} |-> IF x = k THEN v ELSE f[x]]

\* The entries of the keys in ks removed.
Without(f, ks) == [x \in DOMAIN f \ ks |-> f[x]]

\* len(get_pending_words(session_id))
pending_count(session_id) == Len(get_temp_words(session_id))

\* _save_session_state: the JSON written to <session_id>.json
session_data(session_id, o) ==
    [session_id |-> session_id, status |-> o.status,
     created_at |-> isoformat(o.created_at), completed_at |-> isoformat(o.completed_at),
     error_message |-> o.error_message,
     statistics |-> [total_words_processed |-> o.total_words_processed,
                     words_added |-> o.words_added,
                     words_translated |-> o.words_translated,
                     words_failed |-> o.words_failed],
     text_preview |-> SubSeq(o.cleaned_text, 1,
                             IF Len(o.cleaned_text) < 200 THEN Len(o.cleaned_text) ELSE 200)]

\* start_session returns _build_result(success): success and the status are kept.
StartSessionReturns(success, o) ==
    /\ last' = [op |-> "start_session", ret |-> success, n |-> o.words_added, msg |-> o.status]
    /\ run' = RunIdle(run.starts)

\* ProcessingSession(session_id)
Construct(session_id) ==
    /\ run.pc = "idle"
    /\ session_id \notin DOMAIN sessions
    /\ sessions' = Put(sessions, session_id, NewSession(clock))
    /\ UNCHANGED <<review, calls, vocab, tags, tag_seq, word_tags, temp_vocab, clock, last, txn, lock, files, run>>

\* start_session is called: whatever the status was, it is PROCESSING. The text is
\* kept in original_text, an attribute nothing reads but the call itself.
StartSession(session_id, text_input) ==
    /\ run.pc = "idle"
    /\ run.starts < MaxStarts
    /\ session_id \in DOMAIN sessions
    /\ sessions' = [sessions EXCEPT ![session_id].status = PROCESSING]
    /\ run' = [pc |-> "validate", session_id |-> session_id, original_text |-> text_input,
               starts |-> run.starts + 1]
    /\ UNCHANGED <<review, calls, vocab, tags, tag_seq, word_tags, temp_vocab, clock, last, txn, lock, files>>

\* The session after `if not self.cleaned_text:` found the text empty.
AfterEmptyText(o) ==
    [o EXCEPT !.status = FAILED, !.error_message = "Empty or invalid text input"]

\* The text is cleaned; start_session returns at once where nothing is left of it.
ValidateText ==
    /\ run.pc = "validate"
    /\ LET id == run.session_id
           o == [sessions[id] EXCEPT !.cleaned_text = clean_text_input(run.original_text)]
       IN IF o.cleaned_text = <<>>
          THEN /\ sessions' = [sessions EXCEPT ![id] = AfterEmptyText(o)]
               /\ StartSessionReturns(PyFalse, AfterEmptyText(o))
          ELSE /\ sessions' = [sessions EXCEPT ![id] = o]
               /\ run' = [run EXCEPT !.pc = "pipeline"]
               /\ UNCHANGED last
    /\ UNCHANGED <<review, calls, vocab, tags, tag_seq, word_tags, temp_vocab, clock, txn, lock, files>>

\* The pipeline stages a candidate under the session's id.
PipelineStages(c) ==
    /\ run.pc = "pipeline"
    /\ Len(InsertOrReplaceTemp(temp_vocab, c, run.session_id, clock)) <= MaxRows
    /\ temp_vocab' = InsertOrReplaceTemp(temp_vocab, c, run.session_id, clock)
    /\ UNCHANGED <<review, calls, vocab, tags, tag_seq, word_tags, clock, last, txn, lock, sessions, files, run>>

\* The test written `>= 0`.
StatusAfterPipeline_NonNegative(words_added) ==
    IF words_added >= 0 THEN PENDING_REVIEW ELSE COMPLETED

\* if self.words_added > 0: PENDING_REVIEW, else COMPLETED
StatusAfterPipeline(words_added) ==
    IF words_added > 0 THEN PENDING_REVIEW ELSE COMPLETED

\* The session once the pipeline returned the record r.
AfterPipelineResult(o, r, now) ==
    [o EXCEPT !.total_words_processed = r.words_processed,
              !.words_added = r.words_added,
              !.words_translated = r.words_translated,
              !.status = StatusAfterPipeline(r.words_added),
              !.completed_at = At(now)]

\* The session once the pipeline returned None.
AfterPipelineNone(o) ==
    [o EXCEPT !.status = FAILED, !.error_message = "Text processing failed"]

\* The except clause written as the two other failure returns are, without completed_at.
AfterException_NoTimestamp(o, now) ==
    [o EXCEPT !.status = FAILED, !.error_message = "Unexpected error"]

\* The session once `except Exception` caught what the pipeline raised.
AfterException(o, now) ==
    [o EXCEPT !.status = FAILED, !.error_message = "Unexpected error", !.completed_at = At(now)]

\* The pipeline returns a record: the session is saved and start_session succeeds.
PipelineReturns(r) ==
    /\ run.pc = "pipeline"
    /\ LET id == run.session_id
           o == AfterPipelineResult(sessions[id], r, clock)
       IN /\ sessions' = [sessions EXCEPT ![id] = o]
          /\ files' = Put(files, id, session_data(id, o))
          /\ StartSessionReturns(PyTrue, o)
    /\ UNCHANGED <<review, calls, vocab, tags, tag_seq, word_tags, temp_vocab, clock, txn, lock>>

\* The pipeline returns None.
PipelineReturnsNone ==
    /\ run.pc = "pipeline"
    /\ LET id == run.session_id
           o == AfterPipelineNone(sessions[id])
       IN /\ sessions' = [sessions EXCEPT ![id] = o]
          /\ StartSessionReturns(PyFalse, o)
    /\ UNCHANGED <<review, calls, vocab, tags, tag_seq, word_tags, temp_vocab, clock, txn, lock, files>>

\* The pipeline raises an Exception.
PipelineRaises ==
    /\ run.pc = "pipeline"
    /\ LET id == run.session_id
           o == AfterException(sessions[id], clock)
       IN /\ sessions' = [sessions EXCEPT ![id] = o]
          /\ StartSessionReturns(PyFalse, o)
    /\ UNCHANGED <<review, calls, vocab, tags, tag_seq, word_tags, temp_vocab, clock, txn, lock, files>>

\* get_session_status: the status and words_pending_review of the dictionary returned.
GetSessionStatus(session_id) ==
    /\ run.pc = "idle"
    /\ session_id \in DOMAIN sessions
    /\ last' = [op |-> "get_session_status", ret |-> "dict", n |-> pending_count(session_id),
                msg |-> sessions[session_id].status]
    /\ UNCHANGED <<review, calls, vocab, tags, tag_seq, word_tags, temp_vocab, clock, txn, lock,
                   sessions, files, run>>

\* clear_session_data demoting whatever the status is.
AfterClear_Always(o) == [o EXCEPT !.status = COMPLETED]

\* if self.status == PENDING_REVIEW: self.status = COMPLETED
AfterClear(o) ==
    IF o.status = PENDING_REVIEW THEN [o EXCEPT !.status = COMPLETED] ELSE o

\* clear_session_data: clear_session(self.session_id), then the status.
ClearSessionData(session_id) ==
    /\ run.pc = "idle"
    /\ session_id \in DOMAIN sessions
    /\ temp_vocab' = SelectSeq(temp_vocab, LAMBDA r : r.session_id # session_id)
    /\ sessions' = [sessions EXCEPT ![session_id] = AfterClear(sessions[session_id])]
    /\ ReturnsCount("clear_session_data",
                    Len(SelectSeq(temp_vocab, LAMBDA r : r.session_id = session_id)))
    /\ UNCHANGED <<review, calls, vocab, tags, tag_seq, word_tags, clock, txn, lock, files, run>>

\* SessionManager().list_sessions(status_filter): the manager holds the sessions
\* _load_all_sessions read from the files. The summaries, without their order.
list_sessions(status_filter) ==
    { [session_id |-> id, status |-> files[id].status,
       words_added |-> files[id].statistics.words_added,
       pending_words |-> pending_count(id)] :
      id \in {x \in DOMAIN files : status_filter = None \/ files[x].status = status_filter} }

\* The sessions clear_completed_sessions deletes.
ToClear == {i.session_id : i \in {x \in list_sessions(COMPLETED) : x.pending_words = 0}}

\* clear_completed_sessions: delete_session (clear_session, os.remove) for each.
ClearCompletedSessions ==
    /\ run.pc = "idle"
    /\ temp_vocab' = SelectSeq(temp_vocab, LAMBDA r : r.session_id \notin ToClear)
    /\ files' = Without(files, ToClear)
    /\ ReturnsCount("clear_completed_sessions", Cardinality(ToClear))
    /\ UNCHANGED <<review, calls, vocab, tags, tag_seq, word_tags, clock, txn, lock, sessions, run>>

NextSess ==
    \/ \E id \in SessionIds : Construct(id)
    \/ \E id \in SessionIds, t \in Texts : StartSession(id, t)
    \/ ValidateText
    \/ \E c \in PipelineCandidates : PipelineStages(c)
    \/ \E r \in PipelineResults : PipelineReturns(r)
    \/ PipelineReturnsNone
    \/ PipelineRaises
    \/ \E id \in SessionIds : GetSessionStatus(id)
    \/ \E id \in SessionIds : ClearSessionData(id)
    \/ ClearCompletedSessions
    \/ run.pc = "idle" /\ \E in \in SessStageInputs : AddTempWord(in[1], in[2])
    \/ run.pc = "idle" /\ \E id \in SessionIds :
                              ApproveWord("essen", id, DefaultDifficulty, <<>>)
    \/ run.pc = "idle" /\ \E l \in SessLemmas, id \in SessionIds : RejectWord(l, id)

SpecSess == Init /\ [][NextSess]_vars

(***************************************************************************)
(* SpecMgr: SessionManager. sessions is the manager's dictionary, files    *)
(* the sessions directory, which a ProcessingSession held by no manager    *)
(* writes too. clock is an instant of datetime.now(), counted in half      *)
(* seconds; create_session is one step, with start_session inside it.      *)
(***************************************************************************)
\* The ids uuid4 generates, and the ids the calls are made with.
MgrIds == {"s1", "s2"}
AllIds == MgrIds \cup {""}

Digits == <<"0", "1", "2", "3", "4", "5", "6", "7", "8", "9">>

\* The order of the characters of a timestamp: '.' comes before the digits.
CharCode(ch) == IF ch = "." THEN 0 ELSE CHOOSE i \in 1..10 : Digits[i] = ch

\* str < str
RECURSIVE LexLess(_, _)
LexLess(a, b) ==
    IF a = <<>> THEN b # <<>>
    ELSE IF b = <<>> THEN FALSE
    ELSE IF Head(a) = Head(b) THEN LexLess(Tail(a), Tail(b))
    ELSE CharCode(Head(a)) < CharCode(Head(b))

\* The fraction of the second dropped.
ParseIso_WholeSeconds(str) == 2 * (10 * (CharCode(str[1]) - 1) + (CharCode(str[2]) - 1))

\* datetime.fromisoformat, of the seconds and the fraction.
ParseIso(str) ==
    2 * (10 * (CharCode(str[1]) - 1) + (CharCode(str[2]) - 1)) + (IF Len(str) > 2 THEN 1 ELSE 0)

\* datetime.fromisoformat(x) if x else None
fromisoformat(x) == IF x.null THEN NoTime ELSE At(ParseIso(x.iso))

\* _load_session_state: the session restored from the JSON of its file.
LoadedSession(f) ==
    [status |-> f.status,
     created_at |-> fromisoformat(f.created_at),
     completed_at |-> fromisoformat(f.completed_at),
     error_message |-> f.error_message,
     total_words_processed |-> f.statistics.total_words_processed,
     words_added |-> f.statistics.words_added,
     words_translated |-> f.statistics.words_translated,
     words_failed |-> f.statistics.words_failed,
     cleaned_text |-> f.text_preview]

\* A session constructed at the instant now, in start_session with the text cleaned.
Started(now, text_input) ==
    [NewSession(now) EXCEPT !.status = PROCESSING, !.cleaned_text = clean_text_input(text_input)]

\* A second passes, or half of one.
Tick ==
    /\ clock < MaxClock
    /\ clock' = clock + 1
    /\ UNCHANGED <<review, calls, vocab, tags, tag_seq, word_tags, temp_vocab, last, txn, lock,
                   sessions, files, run>>

\* The staging store once the pipeline ran for session id and returned r.
StagedBy(r, id) ==
    IF r.words_added > 0
    THEN InsertOrReplaceTemp(temp_vocab, CHOOSE c \in PipelineCandidates : TRUE, id, clock)
    ELSE temp_vocab

\* start_session on a new session object, to its end: the session, whether it was
\* saved, and the staging store it leaves.
StartOutcomes(id, text_input) ==
    LET o == Started(clock, text_input)
    IN IF o.cleaned_text = <<>>
       THEN {[session |-> AfterEmptyText(o), saved |-> FALSE, rows |-> temp_vocab]}
       ELSE {[session |-> AfterPipelineResult(o, r, clock), saved |-> TRUE,
              rows |-> StagedBy(r, id)] : r \in PipelineResults}
            \cup {[session |-> AfterPipelineNone(o), saved |-> FALSE, rows |-> temp_vocab],
                  [session |-> AfterException(o, clock), saved |-> FALSE, rows |-> temp_vocab]}

\* manager.create_session(text_input): a session with a new id, kept and started.
CreateSession(id, text_input) ==
    /\ id \notin DOMAIN sessions \cup DOMAIN files
    /\ \E out \in StartOutcomes(id, text_input) :
          /\ Len(out.rows) <= MaxRows
          /\ temp_vocab' = out.rows
          /\ sessions' = Put(sessions, id, out.session)
          /\ files' = IF out.saved THEN Put(files, id, session_data(id, out.session)) ELSE files
          /\ Returns("create_session", PyTrue, out.session.status)
    /\ UNCHANGED <<review, calls, vocab, tags, tag_seq, word_tags, clock, txn, lock, run>>

\* ProcessingSession().start_session(text_input) on a session no manager holds.
StartUnmanaged(id, text_input) ==
    /\ id \notin DOMAIN sessions \cup DOMAIN files
    /\ \E out \in StartOutcomes(id, text_input) :
          /\ out.saved
          /\ Len(out.rows) <= MaxRows
          /\ temp_vocab' = out.rows
          /\ files' = Put(files, id, session_data(id, out.session))
          /\ Returns("start_session", PyTrue, out.session.status)
    /\ UNCHANGED <<review, calls, vocab, tags, tag_seq, word_tags, clock, txn, lock, sessions, run>>

\* SessionManager(): _load_all_sessions reads every file of the directory.
NewManager ==
    /\ sessions' = [id \in DOMAIN files |-> LoadedSession(files[id])]
    /\ Returns("SessionManager", None, "")
    /\ UNCHANGED <<review, calls, vocab, tags, tag_seq, word_tags, temp_vocab, clock, txn, lock, files, run>>

\* get_session: the session in memory, or else the one its file holds, or else None.
GetSession(id) ==
    /\ IF id \in DOMAIN sessions
       THEN /\ Returns("get_session", PyTrue, sessions[id].status)
            /\ UNCHANGED sessions
       ELSE IF id \in DOMAIN files
       THEN /\ sessions' = Put(sessions, id, LoadedSession(files[id]))
            /\ Returns("get_session", PyTrue, files[id].status)
       ELSE /\ Returns("get_session", None, "")
            /\ UNCHANGED sessions
    /\ UNCHANGED <<review, calls, vocab, tags, tag_seq, word_tags, temp_vocab, clock, txn, lock, files, run>>

\* delete_session that leaves the file of the session.
DeleteSession_KeepsFile(id) ==
    /\ temp_vocab' = SelectSeq(temp_vocab, LAMBDA r : r.session_id # id)
    /\ sessions' = Without(sessions, {id})
    /\ Returns("delete_session", PyTrue, "")
    /\ UNCHANGED <<review, calls, vocab, tags, tag_seq, word_tags, clock, txn, lock, files, run>>

\* delete_session: clear_session, os.remove of the file, del self.sessions[session_id].
DeleteSession(id) ==
    /\ temp_vocab' = SelectSeq(temp_vocab, LAMBDA r : r.session_id # id)
    /\ files' = Without(files, {id})
    /\ sessions' = Without(sessions, {id})
    /\ Returns("delete_session", PyTrue, "")
    /\ UNCHANGED <<review, calls, vocab, tags, tag_seq, word_tags, clock, txn, lock, run>>

\* key=lambda x: x['created_at'], reverse=True, ascending instead.
SortedByCreation_Ascending(items) ==
    {L \in Perms(items) :
        \A i, j \in 1..Len(L) : i < j => ~LexLess(L[j].created_at, L[i].created_at)}

\* sessions_list.sort(key=lambda x: x['created_at'], reverse=True): the orders the
\* sort may leave, summaries of equal created_at staying in the order of the dictionary.
SortedByCreation(items) ==
    {L \in Perms(items) :
        \A i, j \in 1..Len(L) : i < j => ~LexLess(L[i].created_at, L[j].created_at)}

\* manager.list_sessions(status_filter)
manager_list_sessions(status_filter) ==
    SortedByCreation(
        { [session_id |-> id, status |-> sessions[id].status,
           created_at |-> isoformat(sessions[id].created_at).iso,
           words_added |-> sessions[id].words_added,
           pending_words |-> pending_count(id)] :
          id \in {x \in DOMAIN sessions :
                     status_filter = None \/ sessions[x].status = status_filter} })

NextMgr ==
    \/ Tick
    \/ \E id \in MgrIds, t \in Texts : CreateSession(id, t)
    \/ \E id \in MgrIds, t \in Texts : StartUnmanaged(id, t)
    \/ NewManager
    \/ \E id \in AllIds : GetSession(id)
    \/ \E id \in AllIds : DeleteSession(id)

SpecMgr == Init /\ [][NextMgr]_vars

(***************************************************************************)
(* SpecTags: the vocabulary and the tags, with two processes calling.      *)
(* add_word and create_tag open one connection per statement, and the      *)
(* statements of two calls interleave; the other calls are one step each.  *)
(***************************************************************************)
\* (word, pos, is_regular, translation, difficulty) arguments of add_word: the same
\* word twice, with different fields, and a second word.
TagWordInputs ==
    { [word |-> "essen", pos |-> "VERB", is_regular |-> PyFalse, translation |-> "to eat",
       difficulty |-> DefaultDifficulty],
      [word |-> "essen", pos |-> "NOUN", is_regular |-> None, translation |-> "meal",
       difficulty |-> 5],
      [word |-> "haus", pos |-> "NOUN", is_regular |-> None, translation |-> "house",
       difficulty |-> DefaultDifficulty] }

\* The word arguments of the tag functions.
TagWords == {"essen", "haus"}

TagNames == {"topic"}

\* The description arguments of create_tag.
Descriptions == {None, "about"}

\* What get_tag_id returns for an unknown name, None, as its callers test it:
\* "if not tag_id".
NoTagId == 0

\* SELECT tag_id FROM tags WHERE tag_name = ?
get_tag_id(d, tag_name) ==
    IF \E t \in d.tags : t.tag_name = tag_name THEN TagId(d, tag_name) ELSE NoTagId

\* INSERT INTO vocab without the PRIMARY KEY on word.
VocabInsertFails_NoKey(d, word) == FALSE

\* INSERT INTO vocab raises IntegrityError: word is the PRIMARY KEY.
VocabInsertFails(d, word) == WordInVocab(d, word)

\* INSERT INTO tags without UNIQUE on tag_name.
TagInsertFails_NoUnique(d, tag_name) == FALSE

\* INSERT INTO tags raises IntegrityError: tag_name is UNIQUE.
TagInsertFails(d, tag_name) == \E t \in d.tags : t.tag_name = tag_name

\* The INSERT into a table whose tag_id is not AUTOINCREMENT: the id is one more than
\* the largest id in the table, and the id of a deleted tag comes back.
InsertTag_ReusesIds(d, tag_name, description) ==
    LET ids == {t.tag_id : t \in d.tags}
        top == IF ids = {} THEN 0 ELSE CHOOSE i \in ids : \A j \in ids : j <= i
    IN [d EXCEPT !.tags = @ \cup {[tag_id |-> top + 1, tag_name |-> tag_name,
                                    description |-> description]},
                 !.tag_seq = @ + 1]

\* INSERT INTO tags (tag_name, description) VALUES (?, ?): tag_id is AUTOINCREMENT.
InsertTag(d, tag_name, description) ==
    [d EXCEPT !.tags = @ \cup {[tag_id |-> d.tag_seq + 1, tag_name |-> tag_name,
                                 description |-> description]},
              !.tag_seq = @ + 1]

\* The call of process p that went on from its first statement.
InCall(pc, w, tag_name) == [pc |-> pc, w |-> w, tag_name |-> tag_name]

\* add_word, "if word_exists(word): return", on its own connection.
AddWordCheck(p, w) ==
    /\ calls[p] = NoCall
    /\ IF word_exists(w.word)
       THEN /\ Returns("add_word", None, "already exists")
            /\ UNCHANGED calls
       ELSE /\ calls' = [calls EXCEPT ![p] = InCall("add_word: insert", w, "")]
            /\ UNCHANGED last
    /\ UNCHANGED <<review, vocab, tags, tag_seq, word_tags, temp_vocab, clock, txn, lock,
                   sessions, files, run>>

\* The INSERT of add_word as INSERT OR REPLACE.
AddWordInsert_Replace(p) ==
    /\ calls[p].pc = "add_word: insert"
    /\ LET w == calls[p].w
       IN /\ vocab' = {e \in vocab : e.word # w.word} \cup {w}
          /\ Returns("add_word", None, "Added")
    /\ calls' = [calls EXCEPT ![p] = NoCall]
    /\ UNCHANGED <<review, tags, tag_seq, word_tags, temp_vocab, clock, txn, lock,
                   sessions, files, run>>

\* add_word, the INSERT in its own transaction; sqlite3.Error is caught and printed.
AddWordInsert(p) ==
    /\ calls[p].pc = "add_word: insert"
    /\ LET w == calls[p].w
       IN IF VocabInsertFails(DB, w.word)
          THEN /\ Returns("add_word", None, "Database error")
               /\ UNCHANGED vocab
          ELSE /\ vocab' = InsertVocab(DB, w.word, w.pos, w.is_regular, w.translation,
                                       w.difficulty).vocab
               /\ Returns("add_word", None, "Added")
    /\ calls' = [calls EXCEPT ![p] = NoCall]
    /\ UNCHANGED <<review, tags, tag_seq, word_tags, temp_vocab, clock, txn, lock,
                   sessions, files, run>>

\* The tag_id a call returned, with the message it printed.
ReturnsId(op, tag_id, msg) ==
    IF tag_id = NoTagId
    THEN Returns(op, None, msg)
    ELSE last' = [op |-> op, ret |-> "int", n |-> tag_id, msg |-> msg]

\* create_tag, the INSERT: return cursor.lastrowid, or IntegrityError and the lookup.
CreateTagInsert(p, tag_name, description) ==
    /\ calls[p] = NoCall
    /\ IF TagInsertFails(DB, tag_name)
       THEN /\ calls' = [calls EXCEPT ![p] = InCall("create_tag: lookup", NoWord, tag_name)]
            /\ UNCHANGED <<tags, tag_seq, last>>
       ELSE /\ tag_seq < MaxTagId
            /\ tags' = InsertTag(DB, tag_name, description).tags
            /\ tag_seq' = tag_seq + 1
            /\ ReturnsId("create_tag", tag_seq + 1, "Created tag")
            /\ UNCHANGED calls
    /\ UNCHANGED <<review, vocab, word_tags, temp_vocab, clock, txn, lock, sessions, files, run>>

\* create_tag, except sqlite3.IntegrityError: return get_tag_id(tag_name)
CreateTagLookup(p) ==
    /\ calls[p].pc = "create_tag: lookup"
    /\ ReturnsId("create_tag", get_tag_id(DB, calls[p].tag_name), "already exists")
    /\ calls' = [calls EXCEPT ![p] = NoCall]
    /\ UNCHANGED <<review, vocab, tags, tag_seq, word_tags, temp_vocab, clock, txn, lock,
                   sessions, files, run>>

\* add_tag_to_word creating a tag at every call.
AddTagResult_AlwaysCreates(d, word, tag_name) ==
    LET d1 == InsertTag(d, tag_name, None)
    IN [d1 EXCEPT !.word_tags = @ \cup {[word |-> word, tag_id |-> d1.tag_seq]}]

\* add_tag_to_word on a word that exists: get_tag_id, create_tag if there is none,
\* INSERT OR IGNORE INTO word_tags.
AddTagResult(d, word, tag_name) ==
    LET d1 == IF get_tag_id(d, tag_name) = NoTagId THEN InsertTag(d, tag_name, None) ELSE d
    IN [d1 EXCEPT !.word_tags = @ \cup {[word |-> word, tag_id |-> get_tag_id(d1, tag_name)]}]

\* add_tag_to_word without the look at the vocabulary.
AddTagToWord_Unchecked(word, tag_name) ==
    /\ AddTagResult(DB, word, tag_name).tag_seq <= MaxTagId
    /\ SetDB(AddTagResult(DB, word, tag_name))
    /\ Returns("add_tag_to_word", PyTrue, "Added tag")
    /\ UNCHANGED <<review, clock, txn, lock, sessions, files, run, calls>>

\* add_tag_to_word
AddTagToWord(word, tag_name) ==
    /\ IF ~word_exists(word)
       THEN /\ Returns("add_tag_to_word", PyFalse, "doesn't exist")
            /\ UNCHANGED <<vocab, tags, tag_seq, word_tags, temp_vocab>>
       ELSE /\ AddTagResult(DB, word, tag_name).tag_seq <= MaxTagId
            /\ SetDB(AddTagResult(DB, word, tag_name))
            /\ Returns("add_tag_to_word", PyTrue,
                       IF AddTagResult(DB, word, tag_name).word_tags = word_tags
                       THEN "already has tag" ELSE "Added tag")
    /\ UNCHANGED <<review, clock, txn, lock, sessions, files, run, calls>>

\* remove_tag_from_word: DELETE FROM word_tags WHERE word = ? AND tag_id = ?
RemoveTagFromWord(word, tag_name) ==
    /\ LET tag_id == get_tag_id(DB, tag_name)
           row == [word |-> word, tag_id |-> tag_id]
       IN IF tag_id = NoTagId
          THEN /\ Returns("remove_tag_from_word", PyFalse, "Tag doesn't exist")
               /\ UNCHANGED word_tags
          ELSE /\ word_tags' = word_tags \ {row}
               /\ Returns("remove_tag_from_word",
                          IF row \in word_tags THEN PyTrue ELSE PyFalse, "")
    /\ UNCHANGED <<review, vocab, tags, tag_seq, temp_vocab, clock, txn, lock, sessions, files,
                   run, calls>>

\* delete_tag: DELETE FROM tags WHERE tag_id = ?, on a connection that never turned
\* foreign keys on, so that ON DELETE CASCADE does nothing.
DeleteTag(tag_name) ==
    /\ LET tag_id == get_tag_id(DB, tag_name)
       IN IF tag_id = NoTagId
          THEN /\ Returns("delete_tag", PyFalse, "Tag doesn't exist")
               /\ UNCHANGED tags
          ELSE /\ tags' = {t \in tags : t.tag_id # tag_id}
               /\ Returns("delete_tag", PyTrue, "Deleted tag")
    /\ UNCHANGED <<review, vocab, tag_seq, word_tags, temp_vocab, clock, txn, lock, sessions,
                   files, run, calls>>

\* The candidate staged and approved in SpecTags, and the arguments of approve_word.
TagCandidate == CHOOSE c \in Candidates : c.word = "essen"

NextTags ==
    \/ \E p \in Procs, w \in TagWordInputs : AddWordCheck(p, w)
    \/ \E p \in Procs : AddWordInsert(p)
    \/ \E p \in Procs, t \in TagNames, d \in Descriptions : CreateTagInsert(p, t, d)
    \/ \E p \in Procs : CreateTagLookup(p)
    \/ \E w \in TagWords, t \in TagNames : AddTagToWord(w, t)
    \/ \E w \in TagWords, t \in TagNames : RemoveTagFromWord(w, t)
    \/ \E t \in TagNames : DeleteTag(t)
    \/ AddTempWord(TagCandidate, "s1")
    \/ /\ tag_seq < MaxTagId
       /\ ApproveWord("essen", "s1", 4, <<"topic">>)

SpecTags == Init /\ [][NextTags]_vars

(***************************************************************************)
(* SpecOrder: the staging store while time passes. created_at is the       *)
(* second of the INSERT, and several rows are staged within one second.    *)
(***************************************************************************)
\* The (candidate, session_id) pairs staged in SpecOrder.
OrderInputs ==
    {<<c, s>> \in Candidates \X {"s1", "s2"} : s = "s1" \/ c.word = "essen"}

\* add_temp_word at the second the clock shows.
AddTempWordNow(c, session_id) ==
    /\ Len(InsertOrReplaceTemp(temp_vocab, c, session_id, clock)) <= MaxStaged
    /\ temp_vocab' = InsertOrReplaceTemp(temp_vocab, c, session_id, clock)
    /\ Returns("add_temp_word", PyTrue, "")
    /\ UNCHANGED <<review, calls, vocab, tags, tag_seq, word_tags, clock, sessions, files, run, txn, lock>>

NextOrder ==
    \/ Tick
    \/ \E in \in OrderInputs : AddTempWordNow(in[1], in[2])
    \/ \E w \in Words, s \in {"s1", "s2"} : RemoveTempWord(w, s)
    \/ \E s \in {"s1", "s2"} : ApproveWord("haus", s, DefaultDifficulty, <<>>)
    \/ \E l \in {"essen", "haus"}, s \in {"s1", "s2"} : RejectWord(l, s)

SpecOrder == Init /\ [][NextOrder]_vars

(***************************************************************************)
(* SpecReview: review.py, review_pending_words. The console loop reads the *)
(* pending list once and then asks about one word per prompt; a step is    *)
(* one answer of the user together with everything the loop does until it  *)
(* prompts again or ends. Words are staged and added between reviews.      *)
(***************************************************************************)
\* The session reviewed.
ReviewSession == "s1"

\* What the user types at "Tags (comma-separated, or Enter for none)".
ReviewTagLists == {<<>>, <<"topic">>}

\* What prompt_difficulty returns: it asks until the answer is an integer from 0 to 4.
prompt_difficulty == 0..4

\* word, lemma, ... = pending[word_index]
CurrentLemma == review.pending[review.word_index + 1].lemma

\* word_index += 1 and the test of the while loop: the next prompt, or the end of the
\* loop and the summary.
NextWord(r) ==
    IF r.word_index + 1 < Len(r.pending)
    THEN [r EXCEPT !.word_index = @ + 1]
    ELSE NoReview

\* pending = get_pending_words(session_id); return when there is none, else the
\* first prompt.
ReviewStart(session_id) ==
    /\ review.pc = "idle"
    /\ IF get_temp_words(session_id) = <<>>
       THEN /\ Returns("review_pending_words", None, "No pending words")
            /\ UNCHANGED review
       ELSE /\ Returns("review_pending_words", None, "Found pending words")
            /\ review' = [pc |-> "prompt", session_id |-> session_id,
                          pending |-> get_temp_words(session_id), word_index |-> 0]
    /\ UNCHANGED <<calls, vocab, tags, tag_seq, word_tags, temp_vocab, clock, sessions,
                   files, run, txn, lock>>

\* choice == 'A': the word_index moves on only when approve_word returned True.
ReviewApprove(difficulty, tagList) ==
    /\ review.pc = "prompt"
    /\ approve_word(CurrentLemma, review.session_id, difficulty, tagList)
    /\ review' = IF last'.ret = PyTrue THEN NextWord(review) ELSE review
    /\ UNCHANGED <<calls, clock, sessions, files, run, txn, lock>>

\* choice == 'S'
ReviewSkip ==
    /\ review.pc = "prompt"
    /\ review' = NextWord(review)
    /\ Returns("review_pending_words", None, "Skipped")
    /\ UNCHANGED <<calls, vocab, tags, tag_seq, word_tags, temp_vocab, clock, sessions,
                   files, run, txn, lock>>

\* choice == 'R': the word_index moves on only when reject_word returned True.
ReviewReject ==
    /\ review.pc = "prompt"
    /\ reject_word(CurrentLemma, review.session_id)
    /\ review' = IF last'.ret = PyTrue THEN NextWord(review) ELSE review
    /\ UNCHANGED <<calls, clock, sessions, files, run, txn, lock>>

\* choice == 'Q': break
ReviewQuit ==
    /\ review.pc = "prompt"
    /\ review' = NoReview
    /\ Returns("review_pending_words", None, "Exiting review")
    /\ UNCHANGED <<calls, vocab, tags, tag_seq, word_tags, temp_vocab, clock, sessions,
                   files, run, txn, lock>>

\* Any other answer: the same word is asked about again.
ReviewInvalid ==
    /\ review.pc = "prompt"
    /\ Returns("review_pending_words", None, "Invalid option")
    /\ UNCHANGED <<review, calls, vocab, tags, tag_seq, word_tags, temp_vocab, clock,
                   sessions, files, run, txn, lock>>

NextReview ==
    \/ \E c \in Candidates : review.pc = "idle" /\ AddTempWord(c, ReviewSession)
    \/ \E w \in WordInputs : review.pc = "idle" /\ AddWord(w)
    \/ ReviewStart(ReviewSession)
    \/ \E difficulty \in prompt_difficulty, tagList \in ReviewTagLists :
          ReviewApprove(difficulty, tagList)
    \/ ReviewSkip
    \/ ReviewReject
    \/ ReviewQuit
    \/ ReviewInvalid

SpecReview == Init /\ [][NextReview]_vars

(***************************************************************************)
(* What the claims speak of, stated on the tables themselves.              *)
(***************************************************************************)
DBNext == [vocab |-> vocab', tags |-> tags', tag_seq |-> tag_seq',
           word_tags |-> word_tags', temp_vocab |-> temp_vocab']

\* The rows staged for (lemma, session_id) in a temp_vocab table.
StagedRows(rows, lemma, session_id) ==
    {i \in 1..Len(rows) : rows[i].lemma = lemma /\ rows[i].session_id = session_id}

\* The rows of a temp_vocab table that are not staged for (lemma, session_id), in order.
OtherRows(rows, lemma, session_id) ==
    SelectSeq(rows, LAMBDA r : r.lemma # lemma \/ r.session_id # session_id)

InVocab(table, word) == \E e \in table : e.word = word

\* The names of the tags associated with a word.
TagNamesOf(d, word) ==
    {t.tag_name : t \in {t \in d.tags :
        \E wt \in d.word_tags : wt.word = word /\ wt.tag_id = t.tag_id}}

\* C1: approve_word(L, S, d, tags) on a staged candidate whose lemma is not in the
\* vocabulary returns True, the vocabulary then holds an entry for L with that
\* candidate's pos, is_regular and translation and with difficulty d, and no row of
\* lemma L is left in session S. Stated for every staged candidate (L, S).
C1_ApproveCarriesCandidate ==
    [][last'.op = "approve_word" =>
        \A l \in Lemmas, s \in Sessions, a \in ApproveInputs :
            (~InVocab(vocab, l) /\ ApproveWord(l, s, a.difficulty, a.tags)) =>
                \A i \in StagedRows(temp_vocab, l, s) :
                    /\ last'.ret = PyTrue
                    /\ [word |-> l, pos |-> temp_vocab[i].pos,
                        is_regular |-> temp_vocab[i].is_regular,
                        translation |-> temp_vocab[i].translation,
                        difficulty |-> a.difficulty] \in vocab'
                    /\ StagedRows(temp_vocab', l, s) = {}]_vars

\* C2: approve_word(L, S) on a staged candidate whose lemma is already a word of the
\* vocabulary returns False, leaves no row of lemma L in session S, and leaves the
\* vocabulary, the tags and the tag associations as they were.
C2_ApproveExistingCleansUp ==
    [][last'.op = "approve_word" =>
        \A l \in Lemmas, s \in Sessions :
            (/\ StagedRows(temp_vocab, l, s) # {}
             /\ InVocab(vocab, l)
             /\ \E a \in ApproveInputs : ApproveWord(l, s, a.difficulty, a.tags)) =>
                /\ last'.ret = PyFalse
                /\ StagedRows(temp_vocab', l, s) = {}
                /\ temp_vocab' = OtherRows(temp_vocab, l, s)
                /\ vocab' = vocab /\ tags' = tags /\ tag_seq' = tag_seq
                /\ word_tags' = word_tags]_vars

\* A duplicate approval happened: the word carries a tag and the call found it in vocab.
C2_Witness ==
    /\ last.op = "approve_word" /\ last.msg = "already exists"
    /\ word_tags # {}
    /\ temp_vocab # <<>>

\* The committed tables after the step are the whole result of call t: the word with
\* every requested tag and the candidate gone, or only the candidate gone where the
\* word existed.
C3_Complete(t) ==
    /\ StagedRows(temp_vocab', t.lemma, t.session_id) = {}
    /\ temp_vocab' = OtherRows(t.snap.temp_vocab, t.lemma, t.session_id)
    /\ IF t.pc = "commit"
       THEN /\ vocab' = t.snap.vocab \cup
                    {[word |-> t.row.lemma, pos |-> t.row.pos, is_regular |-> t.row.is_regular,
                      translation |-> t.row.translation, difficulty |-> t.difficulty]}
            /\ TagNamesOf(DBNext, t.row.lemma) = Range(t.tags)
            /\ t.snap.tags \subseteq tags'
            /\ t.snap.word_tags \subseteq word_tags'
       ELSE /\ vocab' = t.snap.vocab /\ tags' = t.snap.tags
            /\ tag_seq' = t.snap.tag_seq /\ word_tags' = t.snap.word_tags

\* C3: what approve_word did to the committed tables is all or nothing. The tables
\* change only in the step that commits a call, and then to its whole result (the
\* word with every requested tag and the candidate gone, or only the candidate gone
\* where the word existed); while a call has written and not committed, and when it
\* fails after it has written, the tables are those of before its first write.
C3_AllOrNothing ==
    [][/\ DBNext # DB =>
            \E c \in Conns : /\ txn[c].pc \in {"commit", "commit_exists"}
                             /\ txn'[c].pc = "done"
                             /\ C3_Complete(txn[c])
       /\ \A c \in Conns :
            txn'[c].pc \in {"tags", "link", "commit", "commit_exists"} => DBNext = txn'[c].snap
       /\ \A c \in Conns :
            (/\ txn[c].pc \in {"tags", "link", "commit", "commit_exists"}
             /\ txn'[c].pc = "done"
             /\ last'.ret = PyFalse /\ last'.msg = "error") => DBNext = txn[c].snap]_vars

\* A call failed after it had inserted the word and created a tag; the committed
\* tables are those of before its first write.
C3_Witness ==
    \E c \in Conns :
        /\ txn[c].pc = "done"
        /\ last.op = "approve_word" /\ last.msg = "error"
        /\ InVocab(txn[c].work.vocab, txn[c].lemma)
        /\ txn[c].work.tags # {}
        /\ ~InVocab(vocab, txn[c].lemma)
        /\ DB = txn[c].snap

\* C4: approve_word(L, S) with no row staged for (L, S) returns False and changes no table.
C4_ApproveMissingIsNoOp ==
    [][last'.op = "approve_word" =>
        ((\E l \in Lemmas, s \in Sessions :
            /\ StagedRows(temp_vocab, l, s) = {}
            /\ \E a \in ApproveInputs : ApproveWord(l, s, a.difficulty, a.tags))
         => (last'.ret = PyFalse /\ UNCHANGED <<review, calls, vocab, tags, tag_seq, word_tags, temp_vocab>>))]_vars

\* approve_word found nothing although the lemma is staged under another session.
C4_Witness ==
    /\ last.op = "approve_word" /\ last.msg = "not found"
    /\ temp_vocab # <<>>
    /\ vocab # {}

\* C5: after approve_word(L, S, d, tags) returned True, the tag names associated with L
\* are exactly the names in tags; the tags that existed are kept as they were, a tag is
\* created for each name that was missing and for no other, and no name has two tags.
C5_ApproveTags ==
    [][last'.op = "approve_word" /\ last'.ret = PyTrue =>
        \A l \in Lemmas, s \in Sessions, a \in ApproveInputs :
            ApproveWord(l, s, a.difficulty, a.tags) =>
                /\ TagNamesOf(DBNext, l) = Range(a.tags)
                /\ Cardinality({wt \in word_tags' : wt.word = l}) = Cardinality(Range(a.tags))
                /\ tags \subseteq tags'
                /\ {t.tag_name : t \in tags' \ tags} =
                       Range(a.tags) \ {t.tag_name : t \in tags}
                /\ \A t1, t2 \in tags' : t1.tag_name = t2.tag_name => t1 = t2
                /\ \A wt \in word_tags' \ word_tags : wt.word = l]_vars

\* Two words were approved with the same tag name: one tag, one association each.
C5_Witness ==
    /\ last.op = "approve_word" /\ last.ret = PyTrue
    /\ Cardinality(tags) = 1
    /\ Cardinality(word_tags) = 2

\* C6: reject_word(L, S) returns True exactly when a row was staged for (L, S), leaves
\* none, and leaves the vocabulary, the tags, the associations and every other staged
\* row as they were.
C6_RejectFrame ==
    [][last'.op = "reject_word" =>
        \A l \in Lemmas, s \in Sessions :
            RejectWord(l, s) =>
                /\ (last'.ret = PyTrue) <=> (StagedRows(temp_vocab, l, s) # {})
                /\ StagedRows(temp_vocab', l, s) = {}
                /\ temp_vocab' = OtherRows(temp_vocab, l, s)
                /\ vocab' = vocab /\ tags' = tags /\ tag_seq' = tag_seq
                /\ word_tags' = word_tags]_vars

\* A rejection removed a row and another staged row and a vocabulary word are there.
C6_Witness ==
    /\ last.op = "reject_word" /\ last.ret = PyTrue
    /\ temp_vocab # <<>>
    /\ vocab # {}

\* C7: approve_word and reject_word return False and change no table whenever the lemma
\* or the session id is empty, whatever temp_vocab holds.
C7_EmptyArgumentsFail ==
    [][last'.op \in {"approve_word", "reject_word"} =>
        \A l \in Lemmas, s \in Sessions :
            (/\ l = "" \/ s = ""
             /\ \/ RejectWord(l, s)
                \/ \E a \in ApproveInputs : ApproveWord(l, s, a.difficulty, a.tags)) =>
                (last'.ret = PyFalse /\ UNCHANGED <<review, calls, vocab, tags, tag_seq, word_tags, temp_vocab>>)]_vars

C9_OneRowPerLemmaAndSession ==
    \A i, j \in 1..Len(temp_vocab) :
        (temp_vocab[i].lemma = temp_vocab[j].lemma
         /\ temp_vocab[i].session_id = temp_vocab[j].session_id) => i = j

\* C10: every row get_temp_words(S1) returns has session_id S1, whatever S1 is.
C10_SessionIsolation ==
    \A s \in Sessions : \A r \in Range(get_temp_words(s)) : r.session_id = s

\* The rows of a temp_vocab table staged under session_id.
SessionRows(rows, session_id) == {i \in 1..Len(rows) : rows[i].session_id = session_id}

\* C11: clear_temp_session(S) deletes every row staged under S, leaves every other row
\* and table as it was, and returns the number of rows it deleted; called for a session
\* without rows, as an immediately repeated call is, it returns 0 and changes nothing.
C11_ClearSessionCounts ==
    [][last'.op = "clear_temp_session" =>
        \A s \in Sessions :
            ClearTempSession(s) =>
                /\ last'.n = Cardinality(SessionRows(temp_vocab, s))
                /\ SessionRows(temp_vocab', s) = {}
                /\ temp_vocab' = SelectSeq(temp_vocab, LAMBDA r : r.session_id # s)
                /\ SessionRows(temp_vocab, s) = {} => (last'.n = 0 /\ temp_vocab' = temp_vocab)
                /\ UNCHANGED <<review, calls, vocab, tags, tag_seq, word_tags>>]_vars

\* A session was cleared of its rows while another session keeps a row.
C11_Witness ==
    /\ last.op = "clear_temp_session" /\ last.n >= 1
    /\ temp_vocab # <<>>

\* The status changes the session state machine has.
StatusEdges ==
    { <<CREATED, PROCESSING>>, <<PROCESSING, FAILED>>, <<PROCESSING, COMPLETED>>,
      <<PROCESSING, PENDING_REVIEW>>, <<PENDING_REVIEW, COMPLETED>> }

\* C12: a session starts at created and its status changes only along created ->
\* processing -> failed | completed | pending_review and pending_review -> completed;
\* no call moves a session out of failed or completed.
C12_StatusTransitions ==
    [][/\ \A id \in DOMAIN sessions' \ DOMAIN sessions : sessions'[id].status = CREATED
       /\ \A id \in DOMAIN sessions \cap DOMAIN sessions' :
            \/ sessions'[id].status = sessions[id].status
            \/ <<sessions[id].status, sessions'[id].status>> \in StatusEdges]_vars

C14_EmptyTextFails ==
    [][(/\ run.pc = "validate"
        /\ \A i \in 1..Len(run.original_text) : IsSpace(run.original_text[i])
        /\ ValidateText) =>
            LET o == sessions'[run.session_id]
            IN /\ run'.pc = "idle"
               /\ last'.op = "start_session" /\ last'.ret = PyFalse
               /\ o.status = FAILED
               /\ o.error_message # None
               /\ o.completed_at.set
               /\ temp_vocab' = temp_vocab]_vars

\* C15: when the pipeline raises, start_session returns all the same, with success
\* False, the status failed, error_message set and completed_at set.
C15_PipelineRaises ==
    [][(run.pc = "pipeline" /\ PipelineRaises) =>
            LET o == sessions'[run.session_id]
            IN /\ run'.pc = "idle"
               /\ last'.op = "start_session" /\ last'.ret = PyFalse
               /\ o.status = FAILED
               /\ o.error_message # None
               /\ o.completed_at.set]_vars

\* The pipeline raised in the first run of a session, which had no completed_at before.
C15_Witness ==
    /\ last.op = "start_session" /\ last.ret = PyFalse
    /\ run.starts = 1
    /\ \E id \in DOMAIN sessions :
          /\ sessions[id].status = FAILED
          /\ sessions[id].error_message = "Unexpected error"
          /\ sessions[id].completed_at.set

\* C16: whenever start_session returns, the file of the session exists and holds the
\* status, timestamps, error message and statistics of the session object.
C16_SavedOnReturn ==
    [][(run.pc # "idle" /\ run'.pc = "idle") =>
        LET id == run.session_id
            o == sessions'[id]
        IN /\ id \in DOMAIN files'
           /\ files'[id].session_id = id
           /\ files'[id].status = o.status
           /\ files'[id].created_at = isoformat(o.created_at)
           /\ files'[id].completed_at = isoformat(o.completed_at)
           /\ files'[id].error_message = o.error_message
           /\ files'[id].statistics =
                 [total_words_processed |-> o.total_words_processed,
                  words_added |-> o.words_added,
                  words_translated |-> o.words_translated,
                  words_failed |-> o.words_failed]]_vars

\* C17: get_session_status reports, and list_sessions lists, a pending count equal to
\* the number of rows staged under the session's id at the time of the call.
C17_PendingCountIsLive ==
    [][/\ \A id \in SessionIds :
            GetSessionStatus(id) => last'.n = Cardinality(SessionRows(temp_vocab, id))
       /\ \A x \in list_sessions(None) :
            x.pending_words = Cardinality(SessionRows(temp_vocab, x.session_id))]_vars

SameAsSaved(o, f) ==
    /\ f.status = o.status
    /\ f.created_at = isoformat(o.created_at)
    /\ f.completed_at = isoformat(o.completed_at)
    /\ f.error_message = o.error_message
    /\ f.statistics.total_words_processed = o.total_words_processed
    /\ f.statistics.words_added = o.words_added
    /\ f.statistics.words_translated = o.words_translated
    /\ f.statistics.words_failed = o.words_failed

StatusFilters == {None, CREATED, PROCESSING, COMPLETED, FAILED, PENDING_REVIEW}

C24_EntriesStay ==
    [][\A e \in vocab :
          /\ e \in vocab'
          /\ \A x \in vocab' : x.word = e.word => x = e]_vars

\* approve_word found the word that add_word had inserted, with its tag associated.
C24_Witness ==
    /\ last.op = "approve_word"
    /\ last.msg = "already exists"
    /\ \E e \in vocab : e.word = "essen" /\ e.pos = "VERB"
    /\ word_tags # {}

\* add_word returned from the call of process p without raising, and the vocabulary
\* is as it was, with one entry for the word.
AddWordKept(p, word) ==
    /\ last'.op = "add_word"
    /\ last'.ret = None
    /\ calls'[p] = NoCall
    /\ vocab' = vocab
    /\ Cardinality({e \in vocab' : e.word = word}) = 1

\* C25: add_word on a word that is in the vocabulary returns without raising and
\* leaves the vocabulary as it is, with one entry for the word, whether the call finds
\* the word when it looks or only when it inserts, another call having inserted it
\* in between.
C25_AddExistingIsNoOp ==
    [][\A p \in Procs :
          /\ \A w \in TagWordInputs :
                (InVocab(vocab, w.word) /\ AddWordCheck(p, w)) => AddWordKept(p, w.word)
          /\ (calls[p].pc = "add_word: insert" /\ InVocab(vocab, calls[p].w.word)
                 /\ AddWordInsert(p)) => AddWordKept(p, calls[p].w.word)]_vars

\* Two add_word calls for "essen" both found it missing, and the one that inserted
\* last failed on the entry of the other.
C25_Witness ==
    /\ last.op = "add_word"
    /\ last.msg = "Database error"
    /\ Cardinality({e \in vocab : e.word = "essen"}) = 1

\* The rows of a get_all_words result that are of word.
RowsOf(L, word) == {i \in 1..Len(L) : L[i][1] = word}

\* C26, for a word that is not in the vocabulary: after add_word(w, pos, reg, trans,
\* diff), get_all_words() has exactly one row for w, with pos, trans and diff; for a
\* word that is in the vocabulary it has exactly one row for w too, and the vocabulary
\* is as it was.
C26_AddThenGetAll ==
    [][\A w \in WordInputs :
          AddWord(w) =>
              \A L \in get_all_words(DBNext) :
                  /\ Cardinality(RowsOf(L, w.word)) = 1
                  /\ ~InVocab(vocab, w.word) =>
                         \A i \in RowsOf(L, w.word) :
                             L[i][2] = w.pos /\ L[i][4] = w.translation /\ L[i][5] = w.difficulty
                  /\ InVocab(vocab, w.word) => vocab' = vocab]_vars

\* C26 as claimed, for every word: after add_word(w, pos, reg, trans, diff),
\* get_all_words() has exactly one row for w, and it has pos, trans and diff.
C26_AddThenGetAll_AnyWord ==
    [][\A w \in WordInputs :
          AddWord(w) =>
              \A L \in get_all_words(DBNext) :
                  /\ Cardinality(RowsOf(L, w.word)) = 1
                  /\ \A i \in RowsOf(L, w.word) :
                         L[i][2] = w.pos /\ L[i][4] = w.translation /\ L[i][5] = w.difficulty]_vars

\* add_word inserted "essen" next to another word of the vocabulary.
C26_Witness ==
    /\ last.op = "add_word"
    /\ last.msg = "added"
    /\ \E e \in vocab : e.word = "essen" /\ e.pos = "VERB" /\ e.translation = "to eat"
    /\ \E e \in vocab : e.word = "haus"

\* The tags of a name.
TagsNamed(table, tag_name) == {t \in table : t.tag_name = tag_name}

\* C27: whichever way the statements of create_tag calls interleave, the table has at
\* most one tag of a name; a call whose name has no tag creates the tag with its
\* description and returns its tag_id, and a call whose name has a tag creates none,
\* leaves the tag with its description and returns the tag_id of that tag.
C27_CreateTagOnce ==
    [][/\ \A t \in TagNames : Cardinality(TagsNamed(tags', t)) <= 1
       /\ \A p \in Procs :
             /\ \A t \in TagNames, d \in Descriptions :
                   CreateTagInsert(p, t, d) =>
                       IF TagsNamed(tags, t) = {}
                       THEN /\ calls'[p] = NoCall
                            /\ \E new \in tags' :
                                  /\ tags' = tags \cup {new}
                                  /\ new.tag_name = t
                                  /\ new.description = d
                                  /\ last' = [op |-> "create_tag", ret |-> "int",
                                              n |-> new.tag_id, msg |-> "Created tag"]
                       ELSE /\ tags' = tags
                            /\ calls'[p].pc = "create_tag: lookup"
             /\ (calls[p].pc = "create_tag: lookup" /\ CreateTagLookup(p)) =>
                   /\ tags' = tags
                   /\ calls'[p] = NoCall
                   /\ \A x \in TagsNamed(tags, calls[p].tag_name) :
                         last'.ret = "int" /\ last'.n = x.tag_id]_vars

\* A create_tag call returned the tag_id of the tag another call had created, while
\* the other process, which lost also, has its lookup to make.
C27_Witness ==
    /\ last.op = "create_tag"
    /\ last.msg = "already exists"
    /\ \E t \in tags : t.tag_name = "topic" /\ t.tag_id = last.n /\ t.description = "about"
    /\ \E p \in Procs : calls[p].pc = "create_tag: lookup"

\* C28: add_tag_to_word on a word that is not in the vocabulary returns False and
\* creates no tag and no association.
C28_TagOfMissingWord ==
    [][\A w \in TagWords, t \in TagNames :
          (~InVocab(vocab, w) /\ AddTagToWord(w, t)) =>
              /\ last'.ret = PyFalse
              /\ tags' = tags
              /\ tag_seq' = tag_seq
              /\ word_tags' = word_tags
              /\ vocab' = vocab]_vars

\* add_tag_to_word returned False while the vocabulary has a word and no tag exists.
C28_Witness ==
    /\ last.op = "add_tag_to_word"
    /\ last.ret = PyFalse
    /\ vocab # {}
    /\ tags = {}

\* The associations of a word with the tags of a name.
Associations(d, word, tag_name) ==
    {wt \in d.word_tags : wt.word = word /\ \E t \in TagsNamed(d.tags, tag_name) : t.tag_id = wt.tag_id}

\* C29: add_tag_to_word on a word of the vocabulary returns True; afterwards there is
\* one tag of the name, the one there was or else a new one, and one association of
\* the word with it, the one there was or else a new one; nothing else changes.
C29_TagOfWord ==
    [][\A w \in TagWords, t \in TagNames :
          (InVocab(vocab, w) /\ AddTagToWord(w, t)) =>
              /\ last'.ret = PyTrue
              /\ Cardinality(TagsNamed(tags', t)) = 1
              /\ TagsNamed(tags, t) # {} => tags' = tags
              /\ TagsNamed(tags, t) = {} => \E new \in tags' : tags' = tags \cup {new}
              /\ Cardinality(Associations(DBNext, w, t)) = 1
              /\ Associations(DB, w, t) # {} => word_tags' = word_tags
              /\ word_tags' = word_tags \cup Associations(DBNext, w, t)
              /\ vocab' = vocab]_vars

\* add_tag_to_word was repeated on a word that had the tag.
C29_Witness ==
    /\ last.op = "add_tag_to_word"
    /\ last.ret = PyTrue
    /\ last.msg = "already has tag"
    /\ Cardinality(Associations(DB, "essen", "topic")) = 1

\* C30: every association of word_tags is of a tag of the tags table and of a word of
\* the vocabulary.
C30_AssociationsRefer ==
    \A wt \in word_tags :
        /\ \E t \in tags : t.tag_id = wt.tag_id
        /\ InVocab(vocab, wt.word)

\* The place of a row in a temp_vocab table, which is its place in the order of staging.
StagedAt(rows, r) == CHOOSE i \in 1..Len(rows) : rows[i] = r

\* The rows of result L stand in the order in which the table rows has them staged,
\* and no row stands before an older one.
InStagingOrder(L, rows) ==
    \A i, j \in 1..Len(L) :
        i < j => /\ StagedAt(rows, L[i]) < StagedAt(rows, L[j])
                 /\ L[i].created_at <= L[j].created_at

C32_SessionSummaries ==
    \A L \in get_all_sessions(temp_vocab) :
        /\ {L[i].session_id : i \in 1..Len(L)} = {temp_vocab[k].session_id : k \in 1..Len(temp_vocab)}
        /\ \A i, j \in 1..Len(L) : L[i].session_id = L[j].session_id => i = j
        /\ \A i \in 1..Len(L) :
              L[i].word_count = Cardinality(SessionRows(temp_vocab, L[i].session_id))

\* Two sessions have rows, "s1" two of the lemma "essen".
C32_Witness ==
    /\ Cardinality(SessionRows(temp_vocab, "s1")) = 2
    /\ Cardinality(SessionRows(temp_vocab, "s2")) = 1
    /\ \A k \in SessionRows(temp_vocab, "s1") : temp_vocab[k].lemma = "essen"
    /\ last.op = "add_temp_word"

\* C33: remove_temp_word(L, S) with a row of lemma L staged under S returns True and
\* leaves no row of lemma L under S; with none staged it returns False and changes
\* nothing.
C33_RemoveByLemma ==
    [][\A l \in Words, s \in Sessions :
          RemoveTempWord(l, s) =>
              IF StagedRows(temp_vocab, l, s) # {}
              THEN /\ last'.ret = PyTrue
                   /\ StagedRows(temp_vocab', l, s) = {}
              ELSE /\ last'.ret = PyFalse
                   /\ temp_vocab' = temp_vocab]_vars

\* The rows of a temp_vocab table that are staged under session_id, in order.
RowsUnder(rows, session_id) == SelectSeq(rows, LAMBDA r : r.session_id = session_id)

\* C35: approve_word, reject_word, remove_temp_word and clear_temp_session called for
\* session S1 leave the rows of every other session as they are, a row of the same
\* lemma included.
C35_OtherSessionsKept ==
    [][temp_vocab' # temp_vocab =>
          \A s1 \in Sessions :
             (\/ last'.op = "approve_word" /\ \E l \in Lemmas, a \in ApproveInputs :
                                                 ApproveWord(l, s1, a.difficulty, a.tags)
              \/ last'.op = "reject_word" /\ \E l \in Lemmas : RejectWord(l, s1)
              \/ last'.op = "remove_temp_word" /\ \E w \in Words : RemoveTempWord(w, s1)
              \/ last'.op = "clear_temp_session" /\ ClearTempSession(s1))
             => \A s2 \in Sessions \ {s1} :
                   RowsUnder(temp_vocab', s2) = RowsUnder(temp_vocab, s2)]_vars

\* remove_temp_word removed "essen" from one session, and another session has it
\* staged still.
C35_Witness ==
    /\ last.op = "remove_temp_word"
    /\ last.ret = PyTrue
    /\ Len(temp_vocab) = 1
    /\ temp_vocab[1].word = "essen"

\* C34: when approve_word(L, S1) and approve_word(L, S2) have both returned, each
\* having found L staged under its session while L was not in the vocabulary before,
\* exactly one of them returned True, the vocabulary has one entry for L, and L is
\* staged under neither session.
C34_ApproveInTwoSessions ==
    \A c1, c2 \in Conns :
        (/\ c1 # c2
         /\ txn[c1].pc = "done" /\ txn[c2].pc = "done"
         /\ txn[c1].lemma = txn[c2].lemma
         /\ txn[c1].session_id # txn[c2].session_id
         /\ txn[c1].row # NoRow /\ txn[c2].row # NoRow
         /\ \A w \in WordInputs : w \notin vocab)
        => /\ Cardinality({c \in {c1, c2} : txn[c].ret = PyTrue}) = 1
           /\ Cardinality({e \in vocab : e.word = txn[c1].lemma}) = 1
           /\ StagedRows(temp_vocab, txn[c1].lemma, txn[c1].session_id) = {}
           /\ StagedRows(temp_vocab, txn[c2].lemma, txn[c2].session_id) = {}

C37_DifficultyInRange ==
    \A e \in vocab : e.difficulty \in 0..4

C39_DeletedTagStaysOff ==
    [][\A w \in TagWords, t \in TagNames :
          /\ (last'.op = "delete_tag" /\ DeleteTag(t) /\ last'.ret = PyTrue)
                => t \notin TagNamesOf(DBNext, w)
          /\ (t \notin TagNamesOf(DB, w) /\ t \in TagNamesOf(DBNext, w))
                => \/ /\ last'.op = "add_tag_to_word"
                      /\ last'.ret = PyTrue
                      /\ AddTagToWord(w, t)
                   \/ /\ last'.op = "approve_word"
                      /\ last'.ret = PyTrue
                      /\ w = "essen"
                      /\ ApproveWord(w, "s1", 4, <<t>>)]_vars

\* The tag was on "essen", was deleted, and has come back on "haus" under a new id: the
\* old association of "essen" is still in word_tags and "essen" does not carry the tag.
C39_Witness ==
    /\ last.op = "add_tag_to_word"
    /\ last.ret = PyTrue
    /\ \E t \in tags : t.tag_name = "topic" /\ t.tag_id = 2
    /\ [word |-> "haus", tag_id |-> 2] \in word_tags
    /\ [word |-> "essen", tag_id |-> 1] \in word_tags
    /\ "topic" \in TagNamesOf(DB, "haus")
    /\ "topic" \notin TagNamesOf(DB, "essen")
    /\ get_word_tags("essen") = {}

\* C40: in review_pending_words an answer of Approve or Reject takes the loop past the
\* word it was asked about, to the next pending word or to the end of the loop, so that
\* a user who only approves and rejects is asked once per pending word.
C40_OnePromptPerWord ==
    [][(/\ review.pc = "prompt"
        /\ last'.op \in {"approve_word", "reject_word"}
        /\ \/ ReviewReject
           \/ \E difficulty \in prompt_difficulty, tagList \in ReviewTagLists :
                 ReviewApprove(difficulty, tagList))
          => review' = NextWord(review)]_vars
====
